---- MODULE Spec2Model ----
(***************************************************************************)
(* Model of utils/explorer.py: the obstacle test check_node_validity and   *)
(* the Explorer class (explore, get_final_weight, generate_path).          *)
(*                                                                         *)
(* Coordinates are <<y, x>> tuples (row, column) as in the source.         *)
(* Grids (parent, base_cost) are functions over the cells of MAP_SIZE.     *)
(* Real-valued weights c + sqrt(r), c and r integers, are kept exactly as  *)
(* the pair <<c, r>> and ordered by WeightLess.                            *)
(***************************************************************************)
EXTENDS Integers, Sequences, FiniteSets, TLC

(***************************************************************************)
(* Bounds of the model.                                                    *)
(***************************************************************************)
MapRows == 3
MapCols == 4

(***************************************************************************)
(* utils/constants.py (not part of the sources at hand).                   *)
(***************************************************************************)
MAP_SIZE == <<MapRows, MapCols>>
MAX_ACTIONS == 8
NO_PARENT == -1
START_PARENT == -2
NODE_COST_BFS == 1

Rows == 0 .. (MAP_SIZE[1] - 1)
Cols == 0 .. (MAP_SIZE[2] - 1)
Cells == Rows \X Cols

(***************************************************************************)
(* Pixels of the map image: three channels.                                *)
(***************************************************************************)
FreePixel == <<255, 255, 255>>
ObstaclePixel == <<0, 0, 0>>
MixedPixel == <<255, 0, 0>>

\* numpy ndarray.all() of one pixel: every channel is non-zero.
PixelAll(p) == \A k \in DOMAIN p : p[k] # 0

\* check_node_validity with the column test x < 0 in place of x <= 0
check_node_validity_zero_column(check_img, x, y) ==
    IF x < 0 \/ x >= MAP_SIZE[2] \/ y <= 0 \/ y >= MAP_SIZE[1]
    THEN FALSE
    ELSE IF PixelAll(check_img[y][x]) = FALSE
         THEN FALSE
         ELSE TRUE

\* check_node_validity(check_img, x, y)
check_node_validity(check_img, x, y) ==
    IF x <= 0 \/ x >= MAP_SIZE[2] \/ y <= 0 \/ y >= MAP_SIZE[1]
    THEN FALSE
    ELSE IF PixelAll(check_img[y][x]) = FALSE
         THEN FALSE
         ELSE TRUE

(***************************************************************************)
(* utils/actions.py take_action (not part of the sources at hand): four    *)
(* axis-aligned moves (actions 0..3) followed by four diagonal moves.      *)
(***************************************************************************)
ActionDeltas ==
    << <<1, 0>>, <<-1, 0>>, <<0, -1>>, <<0, 1>>,
       <<1, -1>>, <<1, 1>>, <<-1, -1>>, <<-1, 1>> >>

take_action(i, node) ==
    <<node[1] + ActionDeltas[i + 1][1], node[2] + ActionDeltas[i + 1][2]>>

(***************************************************************************)
(* Arithmetic helpers.                                                     *)
(***************************************************************************)
\* floor of the square root
Isqrt(n) == CHOOSE r \in 0 .. n : r * r <= n /\ (r + 1) * (r + 1) > n

\* Storing the float a + b*sqrt(2) (a, b >= 0) into an integer numpy array:
\* the value is truncated.  base_cost is created by np.full with the integer
\* fill value NO_PARENT, hence has an integer dtype.
Int64Store(a, b) == a + Isqrt(2 * b * b)

\* np.ravel_multi_index([y, x], dims=MAP_SIZE)
ravel_multi_index(node) == node[1] * MAP_SIZE[2] + node[2]

\* np.unravel_index(index, shape=MAP_SIZE); defined for 0 <= index < size only
InIndexRange(index) == index >= 0 /\ index < MAP_SIZE[1] * MAP_SIZE[2]
unravel_index(index) == <<index \div MAP_SIZE[2], index % MAP_SIZE[2]>>

\* Order of the weights <<c, r>> standing for c + sqrt(r).
WeightLess(p, q) ==
    LET d == q[1] - p[1]
        L == p[2] - q[2] - d * d
        M == q[2] - p[2] - d * d
    IN IF d >= 0
       THEN L < 0 \/ L * L < 4 * d * d * q[2]
       ELSE M > 0 /\ M * M > 4 * d * d * p[2]

\* an order of the coordinates that compares the rows only
NodeLessRowOnly(a, b) == a[1] < b[1]

\* Python tuple order of two coordinates
NodeLess(a, b) == a[1] < b[1] \/ (a[1] = b[1] /\ a[2] < b[2])

\* Python tuple order of two queue entries (weight, node)
EntryLess(e, f) ==
    \/ WeightLess(e.pri, f.pri)
    \/ /\ WeightLess(f.pri, e.pri) = FALSE
       /\ NodeLess(e.node, f.node)

\* a queue that hands out its greatest entry
QueueGetLargest(q) == CHOOSE e \in q : \A f \in q \ {e} : EntryLess(f, e)

\* PriorityQueue.get(): the least entry
QueueGet(q) == CHOOSE e \in q : \A f \in q \ {e} : EntryLess(e, f)

(***************************************************************************)
(* The Explorer object together with the locals of explore.                *)
(***************************************************************************)
\* Explorer.__init__
Explorer(start_node, goal_node, method) ==
    [ start_node      |-> start_node,
      goal_node       |-> goal_node,
      method          |-> method,
      generated_nodes |-> << >>,
      parent          |-> [c \in Cells |-> NO_PARENT],
      base_cost       |-> [c \in Cells |-> NO_PARENT],
      node_queue      |-> {},
      popped          |-> << >>,
      pc              |-> "ready" ]

\* Explorer.get_heuristic_score: sqrt(r), returned as the radicand r
get_heuristic_score(self, node) ==
    (self.goal_node[1] - node[1]) * (self.goal_node[1] - node[1])
    + (self.goal_node[2] - node[2]) * (self.goal_node[2] - node[2])

\* Explorer.get_final_weight falls through to quit() for any other method
IncorrectMethod(self) == self.method \notin {"a", "b", "d"}

\* Explorer.get_final_weight
get_final_weight(self, node, node_cost) ==
    IF self.method = "a"
    THEN <<node_cost, get_heuristic_score(self, node)>>
    ELSE IF self.method = "b"
         THEN <<NODE_COST_BFS, 0>>
         ELSE <<node_cost, 0>>

\* seeding that leaves the parent of the start at NO_PARENT
ExploreSeedNoStartParent(self) ==
    LET seeded == [self EXCEPT
                     !.base_cost[self.start_node] = 0,
                     !.generated_nodes = Append(@, self.start_node)]
    IN IF IncorrectMethod(seeded)
       THEN [seeded EXCEPT !.pc = "quit"]
       ELSE [seeded EXCEPT
               !.node_queue = {[pri  |-> get_final_weight(seeded, self.start_node, 0),
                                node |-> self.start_node]},
               !.pc = "running"]

\* explore, lines 88-96: seeding
ExploreSeed(self) ==
    LET seeded == [self EXCEPT
                     !.base_cost[self.start_node] = 0,
                     !.generated_nodes = Append(@, self.start_node),
                     !.parent[self.start_node] = START_PARENT]
    IN IF IncorrectMethod(seeded)
       THEN [seeded EXCEPT !.pc = "quit"]
       ELSE [seeded EXCEPT
               !.node_queue = {[pri  |-> get_final_weight(seeded, self.start_node, 0),
                                node |-> self.start_node]},
               !.pc = "running"]

\* one child, recording the child's own index as its parent
ExpandChildParentIsChild(map_img, self, cur, i) ==
    LET child == take_action(i, cur)
        y == child[1]
        x == child[2]
    IN IF check_node_validity(map_img, x, MAP_SIZE[1] - y)
          /\ self.parent[child] = NO_PARENT
       THEN LET cost == IF i < 4
                        THEN self.base_cost[cur] + 1
                        ELSE Int64Store(self.base_cost[cur], 1)
                costed == [self EXCEPT !.base_cost[child] = cost]
            IN [costed EXCEPT
                  !.node_queue = @ \cup {[pri  |-> get_final_weight(costed, child, cost),
                                          node |-> child]},
                  !.generated_nodes = Append(@, child),
                  !.parent[child] = ravel_multi_index(child)]
       ELSE self

\* one child, probing the map at the child's own row instead of the flipped row
ExpandChildNoFlip(map_img, self, cur, i) ==
    LET child == take_action(i, cur)
        y == child[1]
        x == child[2]
    IN IF check_node_validity(map_img, x, y)
          /\ self.parent[child] = NO_PARENT
       THEN LET cost == IF i < 4
                        THEN self.base_cost[cur] + 1
                        ELSE Int64Store(self.base_cost[cur], 1)
                costed == [self EXCEPT !.base_cost[child] = cost]
            IN [costed EXCEPT
                  !.node_queue = @ \cup {[pri  |-> get_final_weight(costed, child, cost),
                                          node |-> child]},
                  !.generated_nodes = Append(@, child),
                  !.parent[child] = ravel_multi_index(cur)]
       ELSE self

\* one child, without the test that the child has not been generated before
ExpandChildNoVisitedTest(map_img, self, cur, i) ==
    LET child == take_action(i, cur)
        y == child[1]
        x == child[2]
    IN IF check_node_validity(map_img, x, MAP_SIZE[1] - y)
       THEN LET cost == IF i < 4
                        THEN self.base_cost[cur] + 1
                        ELSE Int64Store(self.base_cost[cur], 1)
                costed == [self EXCEPT !.base_cost[child] = cost]
            IN [costed EXCEPT
                  !.node_queue = @ \cup {[pri  |-> get_final_weight(costed, child, cost),
                                          node |-> child]},
                  !.generated_nodes = Append(@, child),
                  !.parent[child] = ravel_multi_index(cur)]
       ELSE self

\* one child, with a relaxation: a discovered child is written again when the
\* new cost is not larger than its stored cost
ExpandChildRelaxes(map_img, self, cur, i) ==
    LET child == take_action(i, cur)
        y == child[1]
        x == child[2]
        cost == IF i < 4
                THEN self.base_cost[cur] + 1
                ELSE Int64Store(self.base_cost[cur], 1)
    IN IF check_node_validity(map_img, x, MAP_SIZE[1] - y)
          /\ (self.parent[child] = NO_PARENT
              \/ (self.parent[child] # START_PARENT /\ cost <= self.base_cost[child]))
       THEN LET costed == [self EXCEPT !.base_cost[child] = cost]
            IN [costed EXCEPT
                  !.node_queue = @ \cup {[pri  |-> get_final_weight(costed, child, cost),
                                          node |-> child]},
                  !.generated_nodes = Append(@, child),
                  !.parent[child] = ravel_multi_index(cur)]
       ELSE self

\* explore, lines 108-123: one child of the current node
ExpandChild(map_img, self, cur, i) ==
    LET child == take_action(i, cur)
        y == child[1]
        x == child[2]
    IN IF check_node_validity(map_img, x, MAP_SIZE[1] - y)
          /\ self.parent[child] = NO_PARENT
       THEN LET cost == IF i < 4
                        THEN self.base_cost[cur] + 1
                        ELSE Int64Store(self.base_cost[cur], 1)
                costed == [self EXCEPT !.base_cost[child] = cost]
            IN [costed EXCEPT
                  !.node_queue = @ \cup {[pri  |-> get_final_weight(costed, child, cost),
                                          node |-> child]},
                  !.generated_nodes = Append(@, child),
                  !.parent[child] = ravel_multi_index(cur)]
       ELSE self

\* the indices of one child with parent[y][x] read before the validity test
ChildAccessesParentFirst(map_img, self, cur, i) ==
    LET child == take_action(i, cur)
        y == child[1]
        x == child[2]
        fy == MAP_SIZE[1] - y
        inside == (x <= 0 \/ x >= MAP_SIZE[2] \/ fy <= 0 \/ fy >= MAP_SIZE[1]) = FALSE
        valid == inside /\ PixelAll(map_img[fy][x])
    IN {[grid |-> "parent", at |-> child]}
       \cup (IF inside THEN {[grid |-> "map_img", at |-> <<fy, x>>]} ELSE {})
       \cup (IF valid /\ self.parent[child] = NO_PARENT
             THEN {[grid |-> "base_cost", at |-> cur],
                   [grid |-> "base_cost", at |-> child]}
             ELSE {})

\* explore, lines 108-123, with check_node_validity lines 19-24: the grid
\* indices that one child of the current node reads or writes.  The map is
\* indexed only after the bounds test, parent[y][x] only after the validity
\* test (the and of line 110 evaluates its right side last), and base_cost and
\* the parent write only inside the if.
ChildAccesses(map_img, self, cur, i) ==
    LET child == take_action(i, cur)
        y == child[1]
        x == child[2]
        fy == MAP_SIZE[1] - y
        inside == (x <= 0 \/ x >= MAP_SIZE[2] \/ fy <= 0 \/ fy >= MAP_SIZE[1]) = FALSE
        valid == inside /\ PixelAll(map_img[fy][x])
    IN (IF inside THEN {[grid |-> "map_img", at |-> <<fy, x>>]} ELSE {})
       \cup (IF valid THEN {[grid |-> "parent", at |-> child]} ELSE {})
       \cup (IF valid /\ self.parent[child] = NO_PARENT
             THEN {[grid |-> "base_cost", at |-> cur],
                   [grid |-> "base_cost", at |-> child]}
             ELSE {})

\* the for loop stopping after the four axis-aligned actions
RECURSIVE ExpandFromAxisOnly(_, _, _, _)
ExpandFromAxisOnly(map_img, self, cur, i) ==
    IF i >= 4
    THEN self
    ELSE ExpandFromAxisOnly(map_img, ExpandChild(map_img, self, cur, i), cur, i + 1)

\* explore, lines 106-123: the for loop over the actions
RECURSIVE ExpandFrom(_, _, _, _)
ExpandFrom(map_img, self, cur, i) ==
    IF i >= MAX_ACTIONS
    THEN self
    ELSE ExpandFrom(map_img, ExpandChild(map_img, self, cur, i), cur, i + 1)

\* one iteration that expands the popped node before testing it for the goal
ExploreIterExpandsFirst(map_img, self) ==
    LET current_node == QueueGet(self.node_queue)
        got == [self EXCEPT !.node_queue = @ \ {current_node},
                            !.popped = Append(@, current_node.node)]
        expanded == ExpandFrom(map_img, got, current_node.node, 0)
    IN IF current_node.node = self.goal_node
       THEN [expanded EXCEPT !.pc = "found"]
       ELSE expanded

\* explore, lines 100-123: one iteration of the while loop
ExploreIter(map_img, self) ==
    LET current_node == QueueGet(self.node_queue)
        got == [self EXCEPT !.node_queue = @ \ {current_node},
                            !.popped = Append(@, current_node.node)]
    IN IF current_node.node = self.goal_node
       THEN [got EXCEPT !.pc = "found"]
       ELSE ExpandFrom(map_img, got, current_node.node, 0)

\* explore, line 98: the loop ends when the queue is empty
ExploreExit(self) == [self EXCEPT !.pc = "exhausted"]

\* explore run to its end
RECURSIVE RunExplore(_, _)
RunExplore(map_img, self) ==
    IF self.pc = "ready"
    THEN RunExplore(map_img, ExploreSeed(self))
    ELSE IF self.pc = "running"
         THEN IF self.node_queue = {}
              THEN ExploreExit(self)
              ELSE RunExplore(map_img, ExploreIter(map_img, self))
         ELSE self

\* the backtracking loop leaving the loop one node early: the start is not appended
RECURSIVE BacktrackDropsStart(_, _, _)
BacktrackDropsStart(self, last_node, path_list) ==
    IF self.parent[last_node] = START_PARENT
    THEN [status |-> "path", nodes |-> path_list]
    ELSE IF InIndexRange(self.parent[last_node])
         THEN LET next_node == unravel_index(self.parent[last_node])
              IN IF self.parent[next_node] = START_PARENT
                 THEN [status |-> "path", nodes |-> path_list]
                 ELSE BacktrackDropsStart(self, next_node, Append(path_list, next_node))
         ELSE [status |-> "ValueError", nodes |-> << >>]

\* the backtracking loop ending at any sentinel, not only at START_PARENT
RECURSIVE BacktrackStopsAtAnySentinel(_, _, _)
BacktrackStopsAtAnySentinel(self, last_node, path_list) ==
    IF self.parent[last_node] < 0
    THEN [status |-> "path", nodes |-> path_list]
    ELSE LET next_node == unravel_index(self.parent[last_node])
         IN BacktrackStopsAtAnySentinel(self, next_node, Append(path_list, next_node))

\* generate_path, lines 138-141: the backtracking loop
RECURSIVE Backtrack(_, _, _)
Backtrack(self, last_node, path_list) ==
    IF self.parent[last_node] = START_PARENT
    THEN [status |-> "path", nodes |-> path_list]
    ELSE IF InIndexRange(self.parent[last_node])
         THEN LET next_node == unravel_index(self.parent[last_node])
              IN Backtrack(self, next_node, Append(path_list, next_node))
         ELSE [status |-> "ValueError", nodes |-> << >>]

\* Explorer.generate_path
generate_path(self) == Backtrack(self, self.goal_node, <<self.goal_node>>)

\* show_exploration, lines 151-152: the colours painted into the map
blue == <<255, 0, 0>>
white == <<200, 200, 200>>

\* show_exploration, lines 154-155 and 159-160: the pixel at the flipped row
\* of each of nodes[k], nodes[k + step], ... down or up to nodes[last] is set
\* to colour, one node after the other; an index outside the array ends the
\* loop with IndexError, the pixels painted before it staying painted (a
\* negative index counts from the end of the axis, as numpy does)
RECURSIVE PaintNodes(_, _, _, _, _, _)
PaintNodes(img, nodes, k, step, last, colour) ==
    IF (step > 0 /\ k > last) \/ (step < 0 /\ k < last)
    THEN [map_img |-> img, status |-> "done"]
    ELSE LET y == MAP_SIZE[1] - nodes[k][1]
             x == nodes[k][2]
         IN IF y < -MAP_SIZE[1] \/ y >= MAP_SIZE[1] \/ x < -MAP_SIZE[2] \/ x >= MAP_SIZE[2]
            THEN [map_img |-> img, status |-> "IndexError"]
            ELSE LET row == IF y < 0 THEN y + MAP_SIZE[1] ELSE y
                     col == IF x < 0 THEN x + MAP_SIZE[2] ELSE x
                 IN PaintNodes([img EXCEPT ![row][col] = colour],
                               nodes, k + step, step, last, colour)

\* show_exploration: the generated nodes are painted white in the order of
\* their generation, then the path of generate_path is painted blue from its
\* last coordinate to its first; the map is changed in place, and an error
\* ends the method with the pixels painted so far.  The frames written to
\* the video file and the resized copy of line 163 are not part of the state.
show_exploration(self, map_img) ==
    LET generated == PaintNodes(map_img, self.generated_nodes, 1, 1,
                                Len(self.generated_nodes), white)
    IN IF generated.status # "done"
       THEN generated
       ELSE LET data == generate_path(self)
            IN IF data.status # "path"
               THEN [map_img |-> generated.map_img, status |-> data.status]
               ELSE PaintNodes(generated.map_img, data.nodes,
                               Len(data.nodes), -1, 1, blue)

(***************************************************************************)
(* State machine.                                                          *)
(***************************************************************************)
VARIABLES map_img, ex, path_list, probe, shown

vars == <<map_img, ex, path_list, probe, shown>>

Methods == {"d", "b", "a", "x"}

\* pixels of the image that the flipped probe of explore can read
InnerPixels == (1 .. (MAP_SIZE[1] - 1)) \X (1 .. (MAP_SIZE[2] - 1))

\* the occupied pixels of a map: none, or any part of one row or of one
\* column (a single pixel, or a wall with or without gaps)
ObstacleSets ==
    {O \in SUBSET InnerPixels :
        \/ \E r \in Rows : \A p \in O : p[1] = r
        \/ \E c \in Cols : \A p \in O : p[2] = c}

MapWith(O) ==
    [r \in Rows |-> [c \in Cols |-> IF <<r, c>> \in O THEN ObstaclePixel ELSE FreePixel]]

NoPath == [status |-> "none", nodes |-> << >>]
NoProbe == [x |-> 0, y |-> 0, done |-> FALSE, result |-> FALSE]

\* start and goal nodes handed to the Explorer: every cell inside the one-cell
\* top/left margin, and the corner cell of that margin
Endpoints == InnerPixels \cup {<<0, 0>>}

Init ==
    /\ \E O \in ObstacleSets : map_img = MapWith(O)
    /\ \E s \in Endpoints, g \in Endpoints, m \in Methods : ex = Explorer(s, g, m)
    /\ path_list = NoPath
    /\ probe = NoProbe
    /\ shown = "none"

Seed ==
    /\ ex.pc = "ready"
    /\ ex' = ExploreSeed(ex)
    /\ UNCHANGED <<map_img, path_list, probe, shown>>

Iterate ==
    /\ ex.pc = "running"
    /\ ex.node_queue # {}
    /\ ex' = ExploreIter(map_img, ex)
    /\ UNCHANGED <<map_img, path_list, probe, shown>>

LoopExit ==
    /\ ex.pc = "running"
    /\ ex.node_queue = {}
    /\ ex' = ExploreExit(ex)
    /\ UNCHANGED <<map_img, path_list, probe, shown>>

GeneratePath ==
    /\ ex.pc \in {"found", "exhausted"}
    /\ path_list.status = "none"
    /\ path_list' = generate_path(ex)
    /\ UNCHANGED <<map_img, ex, probe, shown>>

\* show_exploration called once explore has returned
ShowExploration ==
    /\ ex.pc \in {"found", "exhausted"}
    /\ shown = "none"
    /\ LET out == show_exploration(ex, map_img)
       IN /\ map_img' = out.map_img
          /\ shown' = out.status
    /\ UNCHANGED <<ex, path_list, probe>>

Next == Seed \/ Iterate \/ LoopExit \/ GeneratePath \/ ShowExploration

Spec == Init /\ [][Next]_vars

(***************************************************************************)
(* A second state machine that applies check_node_validity to arbitrary    *)
(* arguments, on maps whose pixels may have only some channels at zero.    *)
(***************************************************************************)
Pixels == {FreePixel, ObstaclePixel, MixedPixel}

ProbeMaps ==
    {[r \in Rows |-> [c \in Cols |-> IF <<r, c>> = at THEN p ELSE b]] :
        at \in Cells, p \in Pixels, b \in Pixels}

InitValidity ==
    /\ map_img \in ProbeMaps
    /\ ex = Explorer(<<1, 1>>, <<1, 1>>, "d")
    /\ path_list = NoPath
    /\ probe = NoProbe
    /\ shown = "none"

Probe ==
    /\ probe.done = FALSE
    /\ \E x \in -1 .. MAP_SIZE[2], y \in -1 .. MAP_SIZE[1] :
          probe' = [x |-> x, y |-> y, done |-> TRUE,
                    result |-> check_node_validity(map_img, x, y)]
    /\ UNCHANGED <<map_img, ex, path_list, shown>>

NextValidity == Probe

SpecValidity == InitValidity /\ [][NextValidity]_vars

(***************************************************************************)
(* Notions the properties are stated with.                                 *)
(***************************************************************************)
\* the 8 allowed move deltas
EightMoves == {d \in {-1, 0, 1} \X {-1, 0, 1} : d # <<0, 0>>}

IsMove(a, b) == <<b[1] - a[1], b[2] - a[2]>> \in EightMoves

IsDiagonal(a, b) == a[1] # b[1] /\ a[2] # b[2]

\* is_traversable of a search-space coordinate: the probe explore makes
Traversable(c) == check_node_validity(map_img, c[2], MAP_SIZE[1] - c[1])

\* the map is still the map that explore read: show_exploration has not run
MapAsSearched == shown = "none"

ValidMethod == ex.method \in {"d", "b", "a"}

ValidEndpoints == Traversable(ex.start_node) /\ Traversable(ex.goal_node)

\* cells that a sequence of moves from the set S reaches, every cell moved
\* into being traversable
RECURSIVE MoveClosure(_)
MoveClosure(S) ==
    LET N == S \cup {c \in Cells : Traversable(c) /\ \E p \in S : IsMove(p, c)}
    IN IF N = S THEN S ELSE MoveClosure(N)

Reachable(from, to) == to \in MoveClosure({from})

\* Path costs a + b*sqrt(2) (a axis-aligned moves, b diagonal moves) are kept
\* exactly as <<a, b>>; two of them are equal only when the pairs are equal.
CostLess(p, q) ==
    LET P == p[2] - q[2]
        Q == q[1] - p[1]
    IN IF P >= 0
       THEN Q > 0 /\ 2 * P * P < Q * Q
       ELSE Q >= 0 \/ 2 * P * P > Q * Q

\* A table of costs is a set of pairs <<cell, cost>>, one per reached cell.
Reached(T, c) == \E e \in T : e[1] = c

StepTo(e, c) ==
    IF IsDiagonal(e[1], c) THEN <<e[2][1], e[2][2] + 1>> ELSE <<e[2][1] + 1, e[2][2]>>

CheapestTo(T, c) ==
    LET cand == {e[2] : e \in {f \in T : f[1] = c}}
                \cup (IF Traversable(c)
                      THEN {StepTo(e, c) : e \in {f \in T : IsMove(f[1], c)}}
                      ELSE {})
    IN CHOOSE m \in cand : \A o \in cand : CostLess(o, m) = FALSE

\* one round of relaxation of every cell
Relax(T) ==
    {<<c, CheapestTo(T, c)>> :
        c \in {d \in Cells : \/ Reached(T, d)
                             \/ Traversable(d) /\ \E e \in T : IsMove(e[1], d)}}

RECURSIVE RelaxTimes(_, _)
RelaxTimes(T, n) == IF n = 0 THEN T ELSE RelaxTimes(Relax(T), n - 1)

\* minimum total step cost from the start to every cell that moves reach
MinCost(from) == RelaxTimes({<<from, <<0, 0>>>>}, Cardinality(Cells))

\* total step cost of a sequence of coordinates
RECURSIVE PathCost(_)
PathCost(nodes) ==
    IF Len(nodes) <= 1
    THEN <<0, 0>>
    ELSE LET rest == PathCost(Tail(nodes))
         IN IF IsDiagonal(nodes[1], nodes[2])
            THEN <<rest[1], rest[2] + 1>>
            ELSE <<rest[1] + 1, rest[2]>>

Reverse(q) == [k \in 1 .. Len(q) |-> q[Len(q) + 1 - k]]

\* the grids and the log as __init__ leaves them
AsConstructed ==
    /\ ex.parent = [c \in Cells |-> NO_PARENT]
    /\ ex.base_cost = [c \in Cells |-> NO_PARENT]
    /\ ex.generated_nodes = << >>
    /\ ex.node_queue = {}

\* no cell but the start has been written
OnlyStartWritten ==
    /\ \A c \in Cells \ {ex.start_node} :
          ex.parent[c] = NO_PARENT /\ ex.base_cost[c] = NO_PARENT
    /\ ex.generated_nodes = <<ex.start_node>>

(***************************************************************************)
(* The properties.                                                         *)
(***************************************************************************)

\* C1: under method 'd', the base_cost of every popped coordinate equals the
\* minimum total step cost (1 per axis-aligned move, sqrt(2) per diagonal
\* move) of a path from the start to it.
C1_PoppedCostIsMinimal ==
    (MapAsSearched /\ ex.method = "d" /\ Len(ex.popped) > 0 /\ ValidEndpoints)
    => LET D == MinCost(ex.start_node)
       IN \A k \in 1 .. Len(ex.popped) :
            <<ex.popped[k], <<ex.base_cost[ex.popped[k]], 0>>>> \in D

\* C2: when the search with method 'd' has found the goal, the search with
\* method 'a' on the same map, start and goal finds it too and the two
\* reconstructed paths have the same total step cost.
C2_UniformAndHeuristicSameCost ==
    (/\ MapAsSearched
     /\ ex.method = "d" /\ ex.pc = "found" /\ path_list.status = "path" /\ ValidEndpoints)
    => LET other == RunExplore(map_img, Explorer(ex.start_node, ex.goal_node, "a"))
       IN /\ other.pc = "found"
          /\ PathCost(generate_path(other).nodes) = PathCost(path_list.nodes)

\* C3: explore ends in found, with the goal popped and its parent set, exactly
\* when moves into traversable cells lead from the start to the goal;
\* otherwise it ends exhausted with an empty queue and the goal's parent unset.
C3_FoundIffReachable ==
    (MapAsSearched /\ ex.pc \in {"found", "exhausted"})
    => /\ (ex.pc = "found") <=> Reachable(ex.start_node, ex.goal_node)
       /\ ex.pc = "found"
            => /\ ex.popped[Len(ex.popped)] = ex.goal_node
               /\ ex.parent[ex.goal_node] # NO_PARENT
       /\ ex.pc = "exhausted"
            => /\ ex.node_queue = {}
               /\ ex.parent[ex.goal_node] = NO_PARENT

C3_Witness ==
    /\ MapAsSearched
    /\ ex.pc = "exhausted"
    /\ ValidEndpoints
    /\ Len(ex.popped) >= 2

\* C4: after a found search, the reversed result of generate_path starts at
\* the start, ends at the goal, and consecutive coordinates differ by one of
\* the 8 moves.
C4_PathConnectsStartToGoal ==
    (ex.pc = "found" /\ path_list.status # "none")
    => /\ path_list.status = "path"
       /\ LET r == Reverse(path_list.nodes)
          IN /\ r[1] = ex.start_node
             /\ r[Len(r)] = ex.goal_node
             /\ \A k \in 1 .. (Len(r) - 1) : IsMove(r[k], r[k + 1])

C4_Witness ==
    /\ ex.pc = "found"
    /\ path_list.status = "path"
    /\ Len(path_list.nodes) >= 3

\* C5: with start = goal, explore stops at the first pop, having written no
\* cell but the start, and generate_path returns the single coordinate start.
C5_StartIsGoal ==
    (ex.start_node = ex.goal_node /\ ex.pc \in {"running", "found", "exhausted"})
    => /\ OnlyStartWritten
       /\ ex.pc # "exhausted"
       /\ ex.pc = "running" => ex.popped = << >>
       /\ ex.pc = "found" => ex.popped = <<ex.start_node>> /\ ex.node_queue = {}
       /\ path_list.status # "none"
            => path_list = [status |-> "path", nodes |-> <<ex.start_node>>]

C5_Witness ==
    /\ ex.start_node = ex.goal_node
    /\ ex.pc = "found"
    /\ path_list.status = "path"

\* C6: when the start or the goal is not traversable, the search never leaves
\* the constructed state and the grids, the queue and the log stay as
\* initialized.
C6_InvalidEndpointRejected ==
    (MapAsSearched /\ ValidMethod /\ ValidEndpoints = FALSE)
    => (ex.pc = "ready" /\ AsConstructed)

\* C7: generate_path called on an exhausted search (the goal's parent is
\* NO_PARENT) ends in an error, returns no path and changes nothing.
C7_ExhaustedPathFails ==
    [][(/\ ex.pc = "exhausted"
        /\ ex.parent[ex.goal_node] = NO_PARENT
        /\ path_list.status = "none"
        /\ path_list'.status # "none")
       => (/\ path_list' = [status |-> "ValueError", nodes |-> << >>]
           /\ ex' = ex
           /\ map_img' = map_img)]_vars

C7_Witness ==
    /\ ex.pc = "exhausted"
    /\ ex.parent[ex.goal_node] = NO_PARENT
    /\ path_list.status = "ValueError"

\* C8: when an unknown method makes the search quit, the grids and the log
\* are still as initialized.
C8_IncorrectMethodRejectedEagerly ==
    (ex.pc = "quit") => AsConstructed

\* C9, as claimed: check_node_validity is false for a column outside
\* [1, width-1) or a row outside [1, height-1), false for an occupied cell,
\* and true for every other cell.
C9_OuterRingBlocked ==
    probe.done
    => (probe.result
          <=> /\ probe.x \in 1 .. (MAP_SIZE[2] - 2)
              /\ probe.y \in 1 .. (MAP_SIZE[1] - 2)
              /\ \A k \in 1 .. 3 : map_img[probe.y][probe.x][k] # 0)

\* C9, amended: check_node_validity is false for a column outside [1, width)
\* or a row outside [1, height), false for a cell one of whose channels is
\* zero, and true for every other cell.
C9_TopLeftMarginBlocked ==
    probe.done
    => (probe.result
          <=> /\ probe.x \in 1 .. (MAP_SIZE[2] - 1)
              /\ probe.y \in 1 .. (MAP_SIZE[1] - 1)
              /\ \A k \in 1 .. 3 : map_img[probe.y][probe.x][k] # 0)

C9_Witness ==
    /\ probe.done
    /\ probe.x = MAP_SIZE[2] - 1
    /\ probe.y = MAP_SIZE[1] - 1
    /\ probe.result

\* C10: when explore has ended, the log generated_nodes is the sequence of the
\* popped and expanded coordinates in pop order (the goal, popped last and not
\* expanded, may or may not be counted).
C10_LogIsPopOrder ==
    (ex.pc \in {"found", "exhausted"} /\ ValidEndpoints)
    => \/ ex.generated_nodes = ex.popped
       \/ /\ ex.pc = "found"
          /\ ex.generated_nodes = SubSeq(ex.popped, 1, Len(ex.popped) - 1)

\* C11: a cell whose base_cost has been set keeps its base_cost and its parent
\* in every later step, and no queue entry is pushed for it: the first
\* discovery wins.
C11_FirstDiscoveryWins ==
    [][\A c \in Cells :
          ex.base_cost[c] # NO_PARENT
          => /\ ex'.base_cost[c] = ex.base_cost[c]
             /\ ex'.parent[c] = ex.parent[c]
             /\ \A e \in ex'.node_queue \ ex.node_queue : e.node # c]_vars

\* a second node has been expanded, next to cells that were discovered before
C11_Witness ==
    /\ ex.pc = "running"
    /\ Len(ex.popped) >= 2
    /\ \E c \in Cells \ {ex.start_node} :
          /\ ex.parent[c] # NO_PARENT
          /\ IsMove(ex.popped[Len(ex.popped)], c)
          /\ ex.parent[c] # ravel_multi_index(ex.popped[Len(ex.popped)])

NoDuplicates(q) == \A j, k \in 1 .. Len(q) : q[j] = q[k] => j = k

SeqRange(q) == {q[k] : k \in 1 .. Len(q)}

\* C12: no coordinate is pushed twice (generated_nodes is appended at every
\* push) nor popped twice, every popped coordinate is a pushed cell, and every
\* step of the running loop either pops one more coordinate or leaves the
\* loop: the loop makes at most one iteration per cell and then has ended
\* found or exhausted.
C12_ExploreTerminates ==
    /\ [](/\ NoDuplicates(ex.generated_nodes)
          /\ NoDuplicates(ex.popped)
          /\ SeqRange(ex.popped) \subseteq SeqRange(ex.generated_nodes)
          /\ SeqRange(ex.generated_nodes) \subseteq Cells
          /\ (ex.pc = "running" /\ ex.node_queue = {})
               => Len(ex.popped) = Len(ex.generated_nodes))
    /\ [][ex.pc = "running"
          => \/ /\ ex'.pc \in {"running", "found"}
                /\ Len(ex'.popped) = Len(ex.popped) + 1
             \/ /\ ex'.pc = "exhausted"
                /\ ex.node_queue = {}]_vars

C12_Witness ==
    /\ MapAsSearched
    /\ ex.pc = "exhausted"
    /\ Traversable(ex.start_node)
    /\ Len(ex.popped) >= 4

\* least number of moves into traversable cells that lead from the set S,
\* reached after k moves, to the cell to (-1 when there is none)
RECURSIVE HopsFrom(_, _, _)
HopsFrom(S, to, k) ==
    IF to \in S
    THEN k
    ELSE LET N == S \cup {c \in Cells : Traversable(c) /\ \E p \in S : IsMove(p, c)}
         IN IF N = S THEN -1 ELSE HopsFrom(N, to, k + 1)

HopDistance(from, to) == HopsFrom({from}, to, 0)

\* C13: under method 'b' on a map without obstacles, the coordinates are popped
\* in non-decreasing order of their hop distance from the start.
C13_WeightedPopsByLayer ==
    (MapAsSearched /\ ex.method = "b" /\ map_img = MapWith({}) /\ ValidEndpoints)
    => \A j, k \in 1 .. Len(ex.popped) :
          j < k => HopDistance(ex.start_node, ex.popped[j])
                     <= HopDistance(ex.start_node, ex.popped[k])

\* C14: while explore runs the frontier never holds two entries that compare
\* equal: two distinct entries have distinct coordinates and exactly one of
\* them is less than the other, so the pop (the only choice explore makes) is
\* uniquely determined.
C14_PopUniquelyDetermined ==
    ex.pc = "running"
    => \A e \in ex.node_queue :
          \A f \in ex.node_queue \ {e} :
             /\ e.node # f.node
             /\ EntryLess(e, f) # EntryLess(f, e)

\* the frontier holds two entries of equal weight
C14_Witness ==
    \E e, f \in ex.node_queue :
        /\ e # f
        /\ WeightLess(e.pri, f.pri) = FALSE
        /\ WeightLess(f.pri, e.pri) = FALSE
        /\ ex.method = "a"

\* the coordinates pushed to the frontier so far: those still in it and those
\* popped from it
Pushed == {e.node : e \in ex.node_queue} \cup SeqRange(ex.popped)

InExplore == ex.pc \in {"running", "found", "exhausted"}

\* C15: from the seeding step on, at every loop-iteration boundary, the parent
\* of the start is START_PARENT and the parent of a cell is NO_PARENT exactly
\* when the cell has never been pushed.
C15_ParentMarksPushed ==
    InExplore
    => /\ ex.parent[ex.start_node] = START_PARENT
       /\ {c \in Cells : ex.parent[c] # NO_PARENT} = Pushed

C15_Witness ==
    /\ ex.pc = "running"
    /\ Len(ex.popped) >= 2
    /\ ex.node_queue # {}
    /\ \E c \in Cells : Traversable(c) /\ c \notin Pushed

\* C16: every discovered cell c other than the start has a parent p that is
\* one move away and was popped, with base_cost[c] = base_cost[p] + 1 for an
\* axis-aligned move and base_cost[p] + sqrt(2) for a diagonal one;
\* base_cost[start] = 0.  (Costs a + b*sqrt(2) are the pairs <<a, b>>.)
C16_CostIsParentCostPlusStep ==
    (MapAsSearched /\ InExplore /\ ValidEndpoints)
    => /\ ex.base_cost[ex.start_node] = 0
       /\ \A c \in Cells \ {ex.start_node} :
             ex.parent[c] # NO_PARENT
             => LET p == unravel_index(ex.parent[c])
                IN /\ IsMove(p, c)
                   /\ p \in SeqRange(ex.popped)
                   /\ <<ex.base_cost[c], 0>>
                        = IF IsDiagonal(p, c)
                          THEN <<ex.base_cost[p], 1>>
                          ELSE <<ex.base_cost[p] + 1, 0>>

\* (row, then column) order of two coordinates
RowThenColumn(a, b) == a[1] < b[1] \/ (a[1] = b[1] /\ a[2] < b[2])

\* the priority value of a discovered cell, from the grids: the stored cost
\* for 'd', the stored cost plus the straight-line distance to the goal for
\* 'a', one constant for 'b'
PriorityOf(c) ==
    IF ex.method = "d"
    THEN <<ex.base_cost[c], 0>>
    ELSE IF ex.method = "a"
         THEN <<ex.base_cost[c],
                (ex.goal_node[1] - c[1]) * (ex.goal_node[1] - c[1])
                + (ex.goal_node[2] - c[2]) * (ex.goal_node[2] - c[2])>>
         ELSE <<NODE_COST_BFS, 0>>

\* C17: every pop takes from the frontier the coordinate of least priority
\* value and, among those of equal priority value, the least one in (row,
\* then column) order; under method 'b' it is the least coordinate of the
\* frontier.
C17_PopsLeastEntry ==
    [][(ex.pc = "running" /\ Len(ex'.popped) = Len(ex.popped) + 1)
       => LET n == ex'.popped[Len(ex'.popped)]
          IN /\ n \in {e.node : e \in ex.node_queue}
             /\ \A m \in {e.node : e \in ex.node_queue} \ {n} :
                   /\ \/ WeightLess(PriorityOf(n), PriorityOf(m))
                      \/ /\ WeightLess(PriorityOf(m), PriorityOf(n)) = FALSE
                         /\ RowThenColumn(n, m)
                   /\ ex.method = "b" => RowThenColumn(n, m)]_vars

\* under 'b', a coordinate was popped while a greater one, pushed with the
\* start's children, stayed in the frontier
C17_Witness ==
    /\ ex.method = "b"
    /\ Len(ex.popped) >= 2
    /\ \E e \in ex.node_queue :
          /\ ex.parent[e.node] = ravel_multi_index(ex.start_node)
          /\ RowThenColumn(ex.popped[Len(ex.popped)], e.node)

\* following the parents from the cell c, having passed the cells in seen,
\* arrives at the start, which holds START_PARENT, without passing a cell twice
RECURSIVE ChainReachesStart(_, _)
ChainReachesStart(c, seen) ==
    IF ex.parent[c] = START_PARENT
    THEN c = ex.start_node
    ELSE IF InIndexRange(ex.parent[c]) = FALSE
         THEN FALSE
         ELSE LET p == unravel_index(ex.parent[c])
              IN IF p \in seen \cup {c}
                 THEN FALSE
                 ELSE ChainReachesStart(p, seen \cup {c})

\* C18: in every state the parent links of the discovered cells lead to the
\* start without revisiting a cell, so the loop of generate_path ends whenever
\* parent[goal] is not NO_PARENT.
C18_ParentsFormTree ==
    \A c \in Cells : ex.parent[c] # NO_PARENT => ChainReachesStart(c, {})

\* a discovered cell whose parent is not the start
C18_Witness ==
    \E c \in Cells :
        /\ InIndexRange(ex.parent[c])
        /\ unravel_index(ex.parent[c]) # ex.start_node
        /\ ChainReachesStart(c, {})

\* the cell c, probed at the flipped row, lies inside the one-cell top/left
\* margin of the map and every channel of its pixel is non-zero
FreeInBounds(c) ==
    /\ c[2] >= 1 /\ c[2] <= MapCols - 1
    /\ MapRows - c[1] >= 1 /\ MapRows - c[1] <= MapRows - 1
    /\ \A k \in 1 .. 3 : map_img[MapRows - c[1]][c[2]][k] # 0

\* C19: every cell that explore has discovered, the start excepted, is free
\* and in bounds at the flipped row, and so is every coordinate, the start
\* excepted, of a path that generate_path returned.
C19_DiscoveredAreTraversable ==
    MapAsSearched
    => /\ \A c \in ({d \in Cells : \/ ex.parent[d] # NO_PARENT
                                   \/ ex.base_cost[d] # NO_PARENT}
                    \cup Pushed) \ {ex.start_node} :
             FreeInBounds(c)
       /\ path_list.status = "path"
          => \A k \in 1 .. Len(path_list.nodes) :
                path_list.nodes[k] # ex.start_node => FreeInBounds(path_list.nodes[k])

\* a path of three or more coordinates on a map that has a blocked pixel
\* next to a coordinate of the path
C19_Witness ==
    /\ MapAsSearched
    /\ path_list.status = "path"
    /\ Len(path_list.nodes) >= 3
    /\ \E k \in 1 .. Len(path_list.nodes), c \in InnerPixels :
          /\ IsMove(path_list.nodes[k], c)
          /\ FreeInBounds(c) = FALSE

\* the node that the next iteration of the loop pops
NextPopped == QueueGet(ex.node_queue).node

\* C20: with the start inside the grid, every index that the next iteration
\* of explore uses on parent, base_cost and the map lies in
\* [0, height) x [0, width); a child whose flipped row or column fails the
\* bounds test touches no grid at all, and the grids change exactly when the
\* child's indices were used.
C20_IndicesInsideGrid ==
    /\ ex.start_node \in Cells
    /\ (ex.pc = "running" /\ ex.node_queue # {})
       => \A cur \in {NextPopped} :
             /\ cur \in Cells
             /\ \A i \in 0 .. (MAX_ACTIONS - 1) :
                   \A child \in {take_action(i, cur)},
                      used \in {ChildAccesses(map_img, ex, cur, i)} :
                      /\ \A a \in used : a.at \in Rows \X Cols
                      /\ (\/ child[2] < 1 \/ child[2] > MapCols - 1
                          \/ MapRows - child[1] < 1 \/ MapRows - child[1] > MapRows - 1)
                         => used = {}
                      /\ ([grid |-> "base_cost", at |-> child] \in used)
                         <=> (ExpandChild(map_img, ex, cur, i) # ex)

\* the next node to expand lies in the last row or the last column, so that
\* one of its children is outside the grid, and another child is discovered
C20_Witness ==
    /\ ex.pc = "running"
    /\ ex.node_queue # {}
    /\ NextPopped # ex.goal_node
    /\ \E cur \in {NextPopped} :
          \E i, j \in 0 .. (MAX_ACTIONS - 1) :
             /\ take_action(i, cur) \notin Cells
             /\ ChildAccesses(map_img, ex, cur, i) = {}
             /\ [grid |-> "base_cost", at |-> take_action(j, cur)]
                   \in ChildAccesses(map_img, ex, cur, j)

====
